---------------------------- MODULE Spec2Model ----------------------------
(***************************************************************************)
(* Model of src/streamlit_app.py, the Streamlit dashboard script.          *)
(*                                                                         *)
(* Execution model.  A Streamlit script is executed from top to bottom     *)
(* once when a browser session opens and again, in full, on every widget   *)
(* interaction of that session; the only thing a session carries from one  *)
(* run to the next is the widget state (here: the slider value).  Each     *)
(* action below is one complete run of the script.                         *)
(*                                                                         *)
(* Numbers.  All quantities are scaled integers:                           *)
(*   - a shock percentage is held in tenths of a percent (-10.0 is -100),  *)
(*   - a coefficient in units of 1e-4 (-0.0987 is -987),                   *)
(*   - a deviation therefore in units of 1e-5 kcal, as an IEEE-like        *)
(*     sign/magnitude pair so that the signed zero of a product such as    *)
(*     -0.0987 * 0.0 is kept,                                              *)
(*   - a value formatted with two decimals in hundredths.                  *)
(* The model does not represent the last-bit rounding of a binary64        *)
(* product; the coefficients explored are chosen so that no product is a   *)
(* decimal tie at two decimals unless it is exactly representable.         *)
(*                                                                         *)
(* Line 108 of the source ("[Image of Linear Regression Model              *)
(* Parameters]") is not Python; the model follows the statements of the    *)
(* script and takes that line as a stray placeholder that renders nothing. *)
(***************************************************************************)
EXTENDS Integers, Sequences, FiniteSets

VARIABLES
    file,      \* the CSV in the deployment folder: [exists, columns]
    coef,      \* SHOCK_COEFFICIENT, in units of 1e-4
    widget,    \* per session: the slider's value in session state (tenths of %)
    page,      \* per session: what the last run of the script put on the page
    event      \* per session: what triggered the last run

vars == <<file, coef, widget, page, event>>

\* Browser sessions: a visitor "A" and, where two runs are compared, "B".
Sessions == {"A", "B"}

---------------------------------------------------------------------------
\* Module-level parameters (lines 11-12)

SHOCK_COEFFICIENT == -987

RMSE_VALUE == 69

\* Coefficients for which the calculator is explored: the deployed one, its
\* mirror image, zero, and +-0.25 (whose products are exact in binary).
Coefficients == {-2500, SHOCK_COEFFICIENT, 0, 0 - SHOCK_COEFFICIENT, 2500}

---------------------------------------------------------------------------
\* The input file (lines 15-18)

AllColumns ==
    {"year", "Kcal_Supply_Target", "Kcal_Baseline_Forecast", "Kcal_Total_Forecast"}

AbsentFile == [exists |-> FALSE, columns |-> {}]

WellFormedFile == [exists |-> TRUE, columns |-> AllColumns]

\* Absent, well formed, or lacking exactly one of the columns the script names.
FileStates ==
    {AbsentFile, WellFormedFile}
      \cup {[exists |-> TRUE, columns |-> AllColumns \ {c}] : c \in AllColumns}

\* pd.read_csv(output_file_name, index_col='year', parse_dates=True)
ReadCsv(f) ==
    IF ~f.exists THEN "FileNotFoundError"
    ELSE IF "year" \notin f.columns THEN "ValueError"
    ELSE "ok"

---------------------------------------------------------------------------
\* The slider (lines 56-63)

SLIDER_MIN == -200

SLIDER_MAX == 200

SLIDER_DEFAULT == -100

SLIDER_STEP == 5

\* Mutant: the range of steps runs one past max_value.
SliderValues_Overshoot ==
    {SLIDER_MIN + n * SLIDER_STEP :
        n \in 0 .. ((SLIDER_MAX - SLIDER_MIN) \div SLIDER_STEP) + 1}

\* The values st.slider can return: min_value + n * step, up to max_value.
SliderValues ==
    {SLIDER_MIN + n * SLIDER_STEP : n \in 0 .. ((SLIDER_MAX - SLIDER_MIN) \div SLIDER_STEP)}

---------------------------------------------------------------------------
\* Floating-point values as sign and magnitude

Abs(n) == IF n < 0 THEN 0 - n ELSE n

ToFloat(n) == [neg |-> n < 0, mag |-> Abs(n)]

FMul(a, b) == [neg |-> a.neg # b.neg, mag |-> a.mag * b.mag]

FAbs(x) == [neg |-> FALSE, mag |-> x.mag]

FIsZero(x) == x.mag = 0

FLtZero(x) == x.neg /\ x.mag > 0

FGtZero(x) == ~x.neg /\ x.mag > 0

\* Round m / unit to the nearest integer, ties to even (the rounding of '.2f').
RoundHalfEven(m, unit) ==
    LET q == m \div unit
        r == m % unit
    IN  IF 2 * r < unit THEN q
        ELSE IF 2 * r > unit THEN q + 1
        ELSE IF q % 2 = 0 THEN q ELSE q + 1

\* f"{x:+.2f}": an explicit sign, then two decimals.
FormatSigned2(x) ==
    [sign |-> IF x.neg THEN "-" ELSE "+", cents |-> RoundHalfEven(x.mag, 1000)]

\* f"{x:.2f}": a sign only when negative, then two decimals.
FormatPlain2(x) ==
    [sign |-> IF x.neg THEN "-" ELSE "", cents |-> RoundHalfEven(x.mag, 1000)]

---------------------------------------------------------------------------
\* The scenario panel (lines 66-100)

MSG_RESILIENT == "The model suggests a resilient response: ... higher reported utilization ..."

MSG_SATURATION == "The model predicts a lower utilization ... market saturation or storage limits ..."

MSG_INCREASE == "The model predicts an increase in utilization, ... supply surplus."

MSG_DECREASE == "The model predicts a decrease in utilization, ... supply loss."

MSG_NONE == "No predicted deviation from the baseline."

\* Mutant: the product is rounded to two decimals where it is computed.
PredictedDeviation_Rounded(c, shock) ==
    LET x == FMul(ToFloat(c), ToFloat(shock))
    IN  [neg |-> x.neg, mag |-> RoundHalfEven(x.mag, 1000) * 1000]

\* predicted_deviation = SHOCK_COEFFICIENT * simulated_shock
PredictedDeviation(c, shock) == FMul(ToFloat(c), ToFloat(shock))

\* A banner: st.success, st.error or st.warning with its text.
Banner(kind, label, prefix, value) ==
    [kind |-> kind, label |-> label, prefix |-> prefix, value |-> value]

\* Lines 81-82
OutcomeResilient(dev) ==
    [interpretation |-> MSG_RESILIENT,
     banner |-> Banner("success", "Higher than Baseline", "+", FormatPlain2(FAbs(dev)))]

\* Lines 84-85
OutcomeSaturation(dev) ==
    [interpretation |-> MSG_SATURATION,
     banner |-> Banner("error", "Lower than Baseline", "-", FormatPlain2(FAbs(dev)))]

\* Lines 91-92
OutcomeIncrease(dev) ==
    [interpretation |-> MSG_INCREASE,
     banner |-> Banner("success", "Predicted Utilization Increase", "+", FormatPlain2(dev))]

\* Lines 94-95
OutcomeDecrease(dev) ==
    [interpretation |-> MSG_DECREASE,
     banner |-> Banner("error", "Predicted Utilization Decrease", "", FormatPlain2(dev))]

\* Lines 87-88 and 97-98: the banner repeats the narrative and shows no number.
OutcomeNone ==
    [interpretation |-> MSG_NONE,
     banner |-> Banner("warning", MSG_NONE, "", FormatPlain2(ToFloat(0)))]

\* Mutant: the tests on the shock are inclusive (<= 0, >= 0).
Interpretation_InclusiveZero(c, shock, dev) ==
    IF c < 0 THEN
        IF shock <= 0 THEN OutcomeResilient(dev)
        ELSE IF shock >= 0 THEN OutcomeSaturation(dev)
        ELSE OutcomeNone
    ELSE
        IF shock >= 0 THEN OutcomeIncrease(dev)
        ELSE IF shock <= 0 THEN OutcomeDecrease(dev)
        ELSE OutcomeNone

\* Mutant: the test on the coefficient is inverted (> 0 for < 0).
Interpretation_InvertedCoefficient(c, shock, dev) ==
    IF c > 0 THEN
        IF shock < 0 THEN OutcomeResilient(dev)
        ELSE IF shock > 0 THEN OutcomeSaturation(dev)
        ELSE OutcomeNone
    ELSE
        IF shock > 0 THEN OutcomeIncrease(dev)
        ELSE IF shock < 0 THEN OutcomeDecrease(dev)
        ELSE OutcomeNone

\* Mutant: the final else of each chain is missing; no banner is emitted and
\* interpretation is never assigned.
Interpretation_NoElse(c, shock, dev) ==
    IF c < 0 THEN
        IF shock < 0 THEN OutcomeResilient(dev)
        ELSE IF shock > 0 THEN OutcomeSaturation(dev)
        ELSE [interpretation |-> "", banner |-> Banner("none", "", "", FormatPlain2(ToFloat(0)))]
    ELSE
        IF shock > 0 THEN OutcomeIncrease(dev)
        ELSE IF shock < 0 THEN OutcomeDecrease(dev)
        ELSE [interpretation |-> "", banner |-> Banner("none", "", "", FormatPlain2(ToFloat(0)))]

\* The if/elif/else of lines 79-98: the narrative and the one banner.
Interpretation(c, shock, dev) ==
    IF c < 0 THEN
        IF shock < 0 THEN OutcomeResilient(dev)
        ELSE IF shock > 0 THEN OutcomeSaturation(dev)
        ELSE OutcomeNone
    ELSE
        IF shock > 0 THEN OutcomeIncrease(dev)
        ELSE IF shock < 0 THEN OutcomeDecrease(dev)
        ELSE OutcomeNone

\* The output column: the deviation, its metric, the banner and the caption.
ScenarioPanel(c, shock) ==
    LET dev == PredictedDeviation(c, shock)
        sel == Interpretation(c, shock, dev)
    IN  [simulated_shock     |-> shock,
         predicted_deviation |-> dev,
         metric              |-> FormatSigned2(dev),
         banner              |-> sel.banner,
         caption             |-> sel.interpretation]

---------------------------------------------------------------------------
\* One run of the script (lines 8-123)

\* Line 20-21: st.error(...); st.stop().  Nothing else is on the page.
HaltedPage ==
    [status |-> "halted", exc |-> "", rendered |-> <<"error">>,
     panel |-> <<>>, cards |-> <<>>]

\* An exception no handler of the script catches: the run ends there and the
\* page keeps what was rendered before it, followed by the exception box.
ExceptionPage(exc, before) ==
    [status |-> "exception", exc |-> exc, rendered |-> before \o <<"exception">>,
     panel |-> <<>>, cards |-> <<>>]

\* Lines 25-29: the title, the subtitle and the three tabs.
Heading == <<"title", "markdown", "tabs">>

\* Lines 32-33: what tab 1 renders before the plot is built.
Tab1Intro == <<"tab1.header", "tab1.markdown">>

\* Lines 37-39: the three column accesses of the plot, in order; the first
\* column the table lacks raises KeyError ("" when none does).
Tab1KeyError(f) ==
    IF "Kcal_Supply_Target" \notin f.columns THEN "KeyError: Kcal_Supply_Target"
    ELSE IF "Kcal_Baseline_Forecast" \notin f.columns THEN "KeyError: Kcal_Baseline_Forecast"
    ELSE IF "Kcal_Total_Forecast" \notin f.columns THEN "KeyError: Kcal_Total_Forecast"
    ELSE ""

\* Lines 49-100: tab 2 with the slider, the metric, one banner and the caption.
Tab2Rendered(panel) ==
    <<"tab2.header", "tab2.markdown", "tab2.slider", "tab2.info",
      "tab2.subheader", "tab2.metric", panel.banner.kind, "tab2.caption">>

\* Lines 104-123: tab 3, the model-parameter cards.
Tab3Rendered ==
    <<"tab3.header", "tab3.markdown",
      "tab3.a.subheader", "tab3.a.metric", "tab3.a.metric", "tab3.a.caption",
      "tab3.b.subheader", "tab3.b.metric", "tab3.b.metric", "tab3.b.metric",
      "tab3.b.caption">>

\* Lines 121-122: the coefficient and RMSE cards.
ParameterCards(c) == <<[shock_coefficient |-> c, rmse |-> RMSE_VALUE]>>

\* Mutant: st.stop() is missing after st.error(); the run goes on without
\* df_final and fails with NameError at the first use of it (line 37).
Script_NoStop(c, f, shock) ==
    LET load == ReadCsv(f) IN
    IF load = "FileNotFoundError" THEN
        [status |-> "exception", exc |-> "NameError: df_final",
         rendered |-> <<"error">> \o Heading \o Tab1Intro \o <<"exception">>,
         panel |-> <<>>, cards |-> <<>>]
    ELSE IF load # "ok" THEN ExceptionPage(load, <<>>)
    ELSE IF Tab1KeyError(f) # "" THEN ExceptionPage(Tab1KeyError(f), Heading \o Tab1Intro)
    ELSE LET panel == ScenarioPanel(c, shock) IN
         [status   |-> "served",
          exc      |-> "",
          rendered |-> Heading \o Tab1Intro \o <<"tab1.pyplot">>
                         \o Tab2Rendered(panel) \o Tab3Rendered,
          panel    |-> <<panel>>,
          cards    |-> ParameterCards(c)]

\* The page a run of the whole script produces from the coefficient, the file
\* as it is at that moment and the slider value in session state.
Script(c, f, shock) ==
    LET load == ReadCsv(f) IN
    IF load = "FileNotFoundError" THEN HaltedPage
    ELSE IF load # "ok" THEN ExceptionPage(load, <<>>)
    ELSE IF Tab1KeyError(f) # "" THEN ExceptionPage(Tab1KeyError(f), Heading \o Tab1Intro)
    ELSE LET panel == ScenarioPanel(c, shock) IN
         [status   |-> "served",
          exc      |-> "",
          rendered |-> Heading \o Tab1Intro \o <<"tab1.pyplot">>
                         \o Tab2Rendered(panel) \o Tab3Rendered,
          panel    |-> <<panel>>,
          cards    |-> ParameterCards(c)]

\* Before a session's first run there is no page.
NoPage ==
    [status |-> "idle", exc |-> "", rendered |-> <<>>, panel |-> <<>>, cards |-> <<>>]

---------------------------------------------------------------------------
\* Actions

\* Mutant: the run computes from the slider value of the previous run.
RunScript_StaleWidget(s, ev, shock) ==
    /\ page' = [page EXCEPT ![s] = Script(coef, file, widget[s])]
    /\ widget' = [widget EXCEPT ![s] =
                    IF page'[s].status = "served" THEN shock ELSE SLIDER_DEFAULT]
    /\ event' = [event EXCEPT ![s] = ev]
    /\ UNCHANGED <<file, coef>>

\* Mutant: the table is loaded once per session and kept (a cached load); a
\* run of a session that was served does not read the file again.
RunScript_CachedLoad(s, ev, shock) ==
    /\ page' = [page EXCEPT ![s] =
                  Script(coef, IF page[s].status = "served" THEN WellFormedFile ELSE file,
                         shock)]
    /\ widget' = [widget EXCEPT ![s] =
                    IF page'[s].status = "served" THEN shock ELSE SLIDER_DEFAULT]
    /\ event' = [event EXCEPT ![s] = ev]
    /\ UNCHANGED <<file, coef>>

\* The script runs for session s, triggered by ev, with the slider at shock.
\* A run that does not reach the slider leaves no widget on the page, and the
\* session drops the slider's state: it starts again from its default.
RunScript(s, ev, shock) ==
    /\ page' = [page EXCEPT ![s] = Script(coef, file, shock)]
    /\ widget' = [widget EXCEPT ![s] =
                    IF page'[s].status = "served" THEN shock ELSE SLIDER_DEFAULT]
    /\ event' = [event EXCEPT ![s] = ev]
    /\ UNCHANGED <<file, coef>>

\* A browser opens (or reloads) the app: a fresh session, the slider at its
\* default value.
Open(s) == RunScript(s, "open", SLIDER_DEFAULT)

\* The user drags the slider, which is on the page only after a served run,
\* to another of its values; the script runs again.
SliderMove(s, v) ==
    /\ page[s].status = "served"
    /\ v \in SliderValues
    /\ v # widget[s]
    /\ RunScript(s, "slider", v)

\* The user asks for a rerun without touching a widget.
Rerun(s) ==
    /\ page[s].status # "idle"
    /\ RunScript(s, "rerun", widget[s])

\* The deployment folder changes: the file is removed, restored or replaced.
FileChange(f) ==
    /\ f \in FileStates
    /\ f # file
    /\ file' = f
    /\ UNCHANGED <<coef, widget, page, event>>

\* What one session can do.
Step(s) ==
    \/ Open(s)
    \/ \E v \in SliderValues : SliderMove(s, v)
    \/ Rerun(s)

InitSessions ==
    /\ widget = [s \in Sessions |-> SLIDER_DEFAULT]
    /\ page = [s \in Sessions |-> NoPage]
    /\ event = [s \in Sessions |-> "none"]

\* The deployed app: the coefficient is the literal of line 11.
Init ==
    /\ file \in FileStates
    /\ coef = SHOCK_COEFFICIENT
    /\ InitSessions

\* One visitor.
Next ==
    \/ Step("A")
    \/ \E f \in FileStates : FileChange(f)

Spec == Init /\ [][Next]_vars

\* Two visitors at once, each with a session of its own.
NextPair ==
    \/ \E s \in Sessions : Step(s)
    \/ \E f \in FileStates : FileChange(f)

SpecPair == Init /\ [][NextPair]_vars

\* The calculator for any coefficient: the same app with another literal.
InitCalc ==
    /\ file \in FileStates
    /\ coef \in Coefficients
    /\ InitSessions

SpecCalc == InitCalc /\ [][Next]_vars

---------------------------------------------------------------------------
\* Properties

Served(s) == page[s].status = "served"

Panel(s) == page[s].panel[1]

Sign(n) == IF n < 0 THEN -1 ELSE IF n > 0 THEN 1 ELSE 0

FSign(x) == IF FLtZero(x) THEN -1 ELSE IF FGtZero(x) THEN 1 ELSE 0

BannerKinds == {"success", "error", "warning"}

Narratives == {MSG_RESILIENT, MSG_SATURATION, MSG_INCREASE, MSG_DECREASE, MSG_NONE}

Positions(seq, elems) == {i \in 1 .. Len(seq) : seq[i] \in elems}

\* A step in which the script ran for session s (the file is as it was, and
\* the session's page, widget or trigger is not).
RunOf(s) ==
    /\ file' = file
    /\ <<page'[s], widget'[s], event'[s]>> # <<page[s], widget[s], event[s]>>

\* A run of session s that a slider move triggered.
SliderRun(s) == RunOf(s) /\ event'[s] = "slider" /\ page'[s] # page[s]

\* C1: for every coefficient and every slider value, the deviation the
\* scenario panel holds is exactly coefficient * slider value, unrounded; the
\* rounding to two decimals happens only in the formatted metric.
C1_DeviationIsExactProduct ==
    \A s \in Sessions :
        Served(s) =>
            LET p == Panel(s)
                prod == coef * widget[s]
            IN  /\ p.simulated_shock = widget[s]
                /\ p.predicted_deviation.mag = Abs(prod)
                /\ FSign(p.predicted_deviation) = Sign(prod)
                /\ p.metric.cents = RoundHalfEven(Abs(prod), 1000)

\* A served panel whose deviation is not a whole number of hundredths, so that
\* the value and its formatted metric differ.
C1_Witness ==
    \E s \in Sessions :
        /\ Served(s)
        /\ coef > 0
        /\ Panel(s).predicted_deviation.mag % 1000 # 0
        /\ Panel(s).metric.cents * 1000 # Panel(s).predicted_deviation.mag

C3_ZeroShockGivesZeroOutcome ==
    \A s \in Sessions :
        (Served(s) /\ widget[s] = 0) =>
            /\ FIsZero(Panel(s).predicted_deviation)
            /\ Panel(s).banner.kind = "warning"
            /\ Panel(s).caption = MSG_NONE
            /\ Positions(page[s].rendered, {"success", "error"}) = {}
            /\ Positions(page[s].rendered, {"warning"}) # {}

\* The slider at 0 under a positive coefficient (the else chain of line 89).
C3_Witness ==
    \E s \in Sessions : Served(s) /\ widget[s] = 0 /\ coef > 0

\* C4: with the deployed coefficient -0.0987, the sign of the deviation is
\* sign(c) * sign(s) for every slider value: s < 0 gives a positive deviation,
\* the "resilient response" narrative and a success banner; s > 0 gives a
\* negative deviation, the "market saturation" narrative and an error banner.
C4_DeployedCoefficientSigns ==
    \A s \in Sessions :
        Served(s) =>
            LET p == Panel(s) IN
            /\ coef = -987
            /\ FSign(p.predicted_deviation) = Sign(coef) * Sign(widget[s])
            /\ widget[s] < 0 =>
                   /\ FGtZero(p.predicted_deviation)
                   /\ p.caption = MSG_RESILIENT
                   /\ p.banner.kind = "success"
            /\ widget[s] > 0 =>
                   /\ FLtZero(p.predicted_deviation)
                   /\ p.caption = MSG_SATURATION
                   /\ p.banner.kind = "error"

\* The slider at its upper extreme, 20.0, reached by a move.
C4_Witness ==
    \E s \in Sessions :
        /\ Served(s)
        /\ event[s] = "slider"
        /\ widget[s] = 200
        /\ Panel(s).banner.kind = "error"

\* C5: the message lookup is total: for every sign of the coefficient and of
\* the slider value, zero included, a served page carries exactly one banner,
\* and the caption, rendered after it, is a non-empty narrative of the fixed
\* set.
C5_MessageLookupTotal ==
    \A s \in Sessions :
        Served(s) =>
            LET banners == Positions(page[s].rendered, BannerKinds)
                captions == Positions(page[s].rendered, {"tab2.caption"})
            IN  /\ Cardinality(banners) = 1
                /\ Cardinality(captions) = 1
                /\ \A b \in banners : \A k \in captions : b < k
                /\ \A b \in banners : page[s].rendered[b] = Panel(s).banner.kind
                /\ Panel(s).caption \in Narratives
                /\ Panel(s).caption # ""

\* The corner the lookup could miss: coefficient exactly 0, slider exactly 0.
C5_Witness ==
    \E s \in Sessions : Served(s) /\ coef = 0 /\ widget[s] = 0

\* C6: a run that finds the input file absent puts exactly one error message
\* on the page and halts: no title, tab, chart, slider, metric, banner or
\* parameter card is rendered in that run.
C6_MissingFileHalts ==
    [][\A s \in Sessions :
          (RunOf(s) /\ ~file.exists) =>
              /\ page'[s].status = "halted"
              /\ page'[s].rendered = <<"error">>
              /\ page'[s].panel = <<>>
              /\ page'[s].cards = <<>>]_vars

\* A session whose last run found the file absent, after it had been served.
C6_Witness ==
    \E s \in Sessions :
        /\ page[s].status = "halted"
        /\ event[s] # "open"
        /\ ~file.exists

\* C7 (as claimed): a run that fails on a malformed file reports the failure
\* once, at load time, before any part of the dashboard is rendered.
C7_MalformedReportedBeforeRendering ==
    \A s \in Sessions :
        page[s].status = "exception" => page[s].rendered = <<"exception">>

\* C8: the scenario output is a function of the coefficient and the current
\* slider value alone: two sessions whose sliders are at the same value show
\* the same deviation, metric, banner and narrative whatever moves led there,
\* and the coefficient and RMSE shown are those of process start.
C8_OutputDependsOnlyOnSlider ==
    /\ coef = SHOCK_COEFFICIENT
    /\ \A s \in Sessions :
           Served(s) =>
               page[s].cards = <<[shock_coefficient |-> -987, rmse |-> 69]>>
    /\ \A s, u \in Sessions :
           (Served(s) /\ Served(u) /\ widget[s] = widget[u]) =>
               page[s].panel = page[u].panel

\* Two sessions at the same slider value with different histories: one was
\* moved there, away from the default, the other rerun after a move.
C8_Witness ==
    /\ Served("A") /\ Served("B")
    /\ widget["A"] = widget["B"]
    /\ widget["A"] # SLIDER_DEFAULT
    /\ event["A"] = "slider"
    /\ event["B"] = "rerun"

\* C9 (as claimed): the file is read once, at startup; no slider move can end
\* in the missing-file error state.
C9_NoMissingFileErrorAfterSlider ==
    \A s \in Sessions : event[s] = "slider" => page[s].status # "halted"

\* C9 (amended): every run reads the file again, the run a slider move
\* triggers included: that run ends in the missing-file error state exactly
\* when the file is absent at that moment.
C9_SliderMoveReadsFile ==
    [][\A s \in Sessions :
          SliderRun(s) => (page'[s].status = "halted" <=> ~file.exists)]_vars

\* A slider move that ended in the missing-file error.
C9_Witness ==
    \E s \in Sessions : event[s] = "slider" /\ page[s].status = "halted"

\* C10: the scenario input is -10.0 before any slider move, and is always a
\* multiple of 0.5 within [-20.0, 20.0]; the deviation on the page is computed
\* from that value.
C10_SliderDomain ==
    \A s \in Sessions :
        /\ widget[s] \in -200 .. 200
        /\ widget[s] % 5 = 0
        /\ event[s] \in {"none", "open"} => widget[s] = -100
        /\ Served(s) =>
               /\ Panel(s).simulated_shock = widget[s]
               /\ Panel(s).simulated_shock \in -200 .. 200
               /\ Panel(s).simulated_shock % 5 = 0

\* The slider moved to 19.5, one step below its upper end.
C10_Witness ==
    \E s \in Sessions : Served(s) /\ event[s] = "slider" /\ widget[s] = 195

=============================================================================
